---- MODULE Spec2Model ----
(***************************************************************************)
(* A model of snapjaw, a package manager for game add-ons kept in git      *)
(* repositories: the persisted config and its backup, the add-ons          *)
(* directory, the remote repositories, and the commands install, update,   *)
(* remove and status with the reconciliation they rest on.                 *)
(***************************************************************************)
EXTENDS Integers, Sequences, FiniteSets, TLC

VARIABLES cfgFile, bakFile, disk, remote, now, last, arg, ret, fetch

\* The world of the commands: the config file and its backup, the add-ons
\* directory, the remotes, the commands run so far and how the last one ended.
main == <<cfgFile, bakFile, disk, remote, now, last>>
\* A call of one function on its own: its arguments and what it gave back; and
\* a run of fetch_states with its listing tasks.
side == <<arg, ret, fetch>>

vars == <<cfgFile, bakFile, disk, remote, now, last, arg, ret, fetch>>

(***************************************************************************)
(* Bounds of the model.                                                    *)
(***************************************************************************)
\* mutating commands (install, update, remove) run in one behaviour
MaxCmds == 2
\* the latest directory write of a command that a filesystem error can hit
MaxFailAt == 2
\* requests given to one run of fetch_states
MaxRequests == 3
\* entries (files and empty directories) of a tree that is fingerprinted
MaxEntries == 3
\* files of a tree that is searched for add-ons
MaxScanned == 4

(***************************************************************************)
(* Values.                                                                 *)
(***************************************************************************)
None == "None"
NoRef == "NoRef"

\* The orders in which a filesystem may enumerate the entries of a directory:
\* here by name, ascending or descending.
Scans == {"ascending", "descending"}

\* An entry of the add-ons directory: a directory with its tree, on a
\* filesystem that enumerates in the order scan, or nothing.
DirOn(tree, scan) == [isdir |-> TRUE, tree |-> tree, scan |-> scan]
Dir(tree) == DirOn(tree, "ascending")
NoDir == [isdir |-> FALSE, tree |-> {}, scan |-> "ascending"]

\* A config or backup file: its records by key, or no file.
FileOf(addons) == [exists |-> TRUE, addons |-> addons]
NoFile == [exists |-> FALSE, addons |-> <<>>]

\* A checksum field that is null.
NoneSig == <<"None">>

Urls == {"U1", "U2"}
Branches == {"main", "dev"}
Commits == {"c1", "c2"}

\* Python's order of the strings the model uses (sorted() of str).
StrOrder ==
    <<".git", "Bar", "Bar.toc", "Blizzard_UI", "Foo", "Foo.toc", "HEAD", "Misc",
      "Nested.toc", "New", "New.toc", "U1", "U2", "a", "ab", "b", "bar", "blizzard_ui", "c1", "c2",
      "core.lua", "dev", "ed", "f", "foo", "foo.toc", "g", "main", "main.lua", "misc", "r1",
      "readme.txt", "sub", "toc11200", "toc20000",
      "tocBinary", "tocEarlyFirst", "tocLateFirst", "tocNone", "tocWord", "v1", "v2", "x", "y">>

RankTable == [s \in {StrOrder[i] : i \in DOMAIN StrOrder} |->
                CHOOSE i \in DOMAIN StrOrder : StrOrder[i] = s]

Rank(s) == RankTable[s]

\* sorted(S): the elements of S as a sequence in ascending string order.
RECURSIVE Sorted(_)
Sorted(S) ==
    IF S = {} THEN <<>>
    ELSE LET m == CHOOSE x \in S : \A y \in S : Rank(x) <= Rank(y)
         IN <<m>> \o Sorted(S \ {m})

Reverse(q) == [i \in 1..Len(q) |-> q[Len(q) + 1 - i]]

RECURSIVE Flatten(_)
Flatten(qq) == IF qq = <<>> THEN <<>> ELSE Head(qq) \o Flatten(Tail(qq))

\* str.lower()
Lower(s) ==
    CASE s = "Foo" -> "foo"
      [] s = "Bar" -> "bar"
      [] s = "Misc" -> "misc"
      [] s = "Blizzard_UI" -> "blizzard_ui"
      [] s = "New" -> "new"
      [] s = "Nested" -> "nested"
      [] s = "Zed" -> "zed"
      [] OTHER -> s

\* A key that is the name as it is written.
NameAsKey(name) == name

addon_key(name) == Lower(name)

\* name.startswith('Blizzard_')
StartsWithBlizzard(name) == name \in {"Blizzard_UI"}

(***************************************************************************)
(* Directory trees: a tree is the set of its files, each with the path of  *)
(* its directory below the root, its name and its bytes, and of its        *)
(* directories that hold nothing.                                          *)
(***************************************************************************)
File(dir, name, bytes) == [dir |-> dir, name |-> name, bytes |-> bytes]

\* The directory at path dir, holding nothing: an entry without a file name.
NoName == "NoName"
Folder(dir) == [dir |-> dir, name |-> NoName, bytes |-> None]

IsFile(f) == f.name # NoName

\* The characters of a name. The names of the model are single tokens, but
\* for "ab", which is the name "a" followed by the name "b".
Chars(s) == IF s = "ab" THEN <<"a", "b">> ELSE <<s>>

IsPrefix(p, q) == Len(p) <= Len(q) /\ SubSeq(q, 1, Len(p)) = p

\* The files below directory p, with paths relative to p.
SubTree(tree, p) ==
    {File(SubSeq(f.dir, Len(p) + 1, Len(f.dir)), f.name, f.bytes) :
        f \in {g \in tree : IsPrefix(p, g.dir)}}

\* The names of the directories directly inside directory p.
SubDirs(tree, p) == {f.dir[Len(p) + 1] : f \in {g \in tree : IsPrefix(p, g.dir) /\ Len(g.dir) > Len(p)}}

\* The names of the files directly inside directory p.
FilesIn(tree, p) == {f.name : f \in {g \in tree : g.dir = p /\ IsFile(g)}}

BytesOf(tree, p, name) == (CHOOSE f \in tree : f.dir = p /\ f.name = name).bytes

\* os.path.relpath of a file below the walked root, as the characters it is made of.
RECURSIVE RelPath(_, _)
RelPath(p, name) ==
    IF p = <<>> THEN Chars(name) ELSE Chars(Head(p)) \o <<"/">> \o RelPath(Tail(p), name)

(***************************************************************************)
(* signature.py                                                            *)
(***************************************************************************)
_LATEST_VERSION == 2

\* hashlib.sha1 over the concatenation of the chunks, taken as collision free:
\* the digest stands for the byte string that was fed.
_hash(chunks) == <<"sha1(">> \o Flatten(chunks) \o <<")">>

\* The chunks of one file: its bytes (one block).
_get_file_chunks(bytes) == <<<<bytes>>>>

\* The per-file content hashes of the tree, sorted (version 1).
RECURSIVE SortedFileHashes(_)
SortedFileHashes(files) ==
    IF files = {} THEN <<>>
    ELSE LET f == CHOOSE x \in files : \A y \in files : Rank(x.bytes) <= Rank(y.bytes)
         IN <<_hash(_get_file_chunks(f.bytes))>> \o SortedFileHashes(files \ {f})

_get_dir_chunks_v1(tree) == SortedFileHashes({f \in tree : IsFile(f)})

\* What one step of os.walk yields for directory p (version 2): the sorted
\* names of its subdirectories, then, per file in name order, the relative
\* path and the hash of the bytes.
DirChunksV2(tree, p) ==
    LET subs == Sorted(SubDirs(tree, p))
        names == Sorted(FilesIn(tree, p))
    IN [i \in 1..Len(subs) |-> Chars(subs[i])]
       \o Flatten([i \in 1..Len(names) |->
                     <<RelPath(p, names[i]), _hash(_get_file_chunks(BytesOf(tree, p, names[i])))>>])

\* os.scandir: the names S in the order the filesystem enumerates them.
Scandir(scan, S) == IF scan = "ascending" THEN Sorted(S) ELSE Reverse(Sorted(S))

\* os.walk, top-down: todo is the stack of directories still to visit. The
\* walk descends into the subdirectories in the order they were enumerated
\* in: sorted(subdirs) sorts a copy.
RECURSIVE WalkV2(_, _, _)
WalkV2(tree, todo, scan) ==
    IF todo = <<>> THEN <<>>
    ELSE LET p == Head(todo)
             subs == Scandir(scan, SubDirs(tree, p))
         IN DirChunksV2(tree, p)
            \o WalkV2(tree, [i \in 1..Len(subs) |-> p \o <<subs[i]>>] \o Tail(todo), scan)

_get_dir_chunks_v2(tree, scan) == WalkV2(tree, <<<<>>>>, scan)

Raise(kind) == [exc |-> kind, val |-> <<>>]
Return(v) == [exc |-> None, val |-> v]

_get_checksum(dir, version) ==
    IF ~dir.isdir THEN Raise("ValueError")
    ELSE IF version = 1 THEN Return(_hash(_get_dir_chunks_v1(dir.tree)))
    ELSE IF version = 2 THEN Return(_hash(_get_dir_chunks_v2(dir.tree, dir.scan)))
    ELSE Raise("RuntimeError")

VersionStr(v) == CASE v = 1 -> "1" [] v = 2 -> "2" [] OTHER -> "3"

\* int(): the number a version string denotes, -1 when it denotes none.
IntOf(q) ==
    IF Len(q) # 1 THEN -1
    ELSE CASE q[1] = "1" -> 1 [] q[1] = "2" -> 2 [] q[1] = "3" -> 3 [] OTHER -> -1

\* A pack that leaves the version out.
PackBare(checksum, version) == checksum

\* An unpack that takes a signature without separator for the latest version.
UnpackAsLatest(signature) ==
    IF signature = NoneSig THEN Raise("TypeError")
    ELSE IF \A i \in DOMAIN signature : signature[i] # "|"
    THEN Return([checksum |-> signature, version |-> _LATEST_VERSION])
    ELSE Raise("ValueError")

_pack(checksum, version) == checksum \o <<"|">> \o <<VersionStr(version)>>

_unpack(signature) ==
    IF signature = NoneSig THEN Raise("TypeError")
    ELSE LET bars == {i \in DOMAIN signature : signature[i] = "|"}
         IN IF bars = {} THEN Return([checksum |-> signature, version |-> 1])
            ELSE IF Cardinality(bars) # 1 THEN Raise("ValueError")
            ELSE LET i == CHOOSE j \in bars : TRUE
                     v == IntOf(SubSeq(signature, i + 1, Len(signature)))
                 IN IF v = -1 THEN Raise("ValueError")
                    ELSE Return([checksum |-> SubSeq(signature, 1, i - 1), version |-> v])

calculate(dir) ==
    LET c == _get_checksum(dir, _LATEST_VERSION)
    IN IF c.exc # None THEN c ELSE Return(_pack(c.val, _LATEST_VERSION))

validate(dir, signature) ==
    LET u == _unpack(signature)
    IN IF u.exc # None THEN u
       ELSE LET c == _get_checksum(dir, u.val.version)
            IN IF c.exc # None THEN c ELSE Return(u.val.checksum = c.val)

(***************************************************************************)
(* The repositories behind the urls: the work tree a clone checks out.     *)
(***************************************************************************)
Version(commit) == IF commit = "c1" THEN "v1" ELSE "v2"

WorkTree(url, commit) ==
    IF url = "U1"
    THEN {File(<<>>, "readme.txt", "r1"),
          File(<<"Foo">>, "Foo.toc", "toc11200"),
          File(<<"Foo">>, "core.lua", Version(commit)),
          File(<<"Foo", "sub">>, "Nested.toc", "toc11200"),
          File(<<"Bar">>, "Bar.toc", "toc11200"),
          File(<<"Bar">>, "core.lua", Version(commit)),
          File(<<"New">>, "New.toc", "toc20000")}
    ELSE {File(<<>>, "foo.toc", IF commit = "c1" THEN "toc11200" ELSE "toc20000"),
          File(<<>>, "main.lua", Version(commit)),
          File(<<".git">>, "HEAD", "r1")}

\* datetime.fromtimestamp(head.commit_time)
CommitTime(commit) == IF commit = "c1" THEN <<1>> ELSE <<2>>
NoTime == <<>>

(***************************************************************************)
(* toc.py                                                                  *)
(***************************************************************************)
\* path.suffix.lower() == '.toc'
IsToc(name) == name \in {"Foo.toc", "Bar.toc", "Nested.toc", "New.toc", "foo.toc"}

\* path.stem
Stem(name) ==
    CASE name = "Foo.toc" -> "Foo"
      [] name = "Bar.toc" -> "Bar"
      [] name = "Nested.toc" -> "Nested"
      [] name = "New.toc" -> "New"
      [] name = "foo.toc" -> "foo"
      [] OTHER -> name

\* The lines of the text that the bytes of a manifest decode to.
Text(bytes) ==
    CASE bytes = "toc11200" -> <<"## Interface: 11200">>
      [] bytes = "toc20000" -> <<"## Interface: 20000">>
      [] bytes = "tocEarlyFirst" -> <<"## Title: Foo", "## Interface: 11200", "## Interface: 20000">>
      [] bytes = "tocLateFirst" -> <<"## Interface: 20000", "## Interface: 11200">>
      [] bytes = "tocWord" -> <<"## Interface: classic", "## Interface: 11200">>
      [] OTHER -> <<"## Title: Foo">>

\* _read: the text, or ParseError when the bytes decode under no encoding tried.
_read(bytes) == IF bytes = "tocBinary" THEN Raise("ParseError") ELSE Return(Text(bytes))

\* The pattern '## Interface:\s+(?P<v>\d+)' on one line: int of the digits it
\* matches, -1 when it does not match.
Interface(line) ==
    CASE line = "## Interface: 11200" -> 11200
      [] line = "## Interface: 20000" -> 20000
      [] OTHER -> -1

\* The version on the last line that the pattern matches.
LastVersion(bytes) ==
    LET lines == _read(bytes).val
        matches == {i \in DOMAIN lines : Interface(lines[i]) # -1}
    IN IF matches = {} THEN -1
       ELSE Interface(lines[CHOOSE i \in matches : \A j \in matches : j <= i])

\* re.search: the leftmost match of the pattern in the text.
RECURSIVE Search(_)
Search(lines) ==
    IF lines = <<>> THEN -1
    ELSE IF Interface(Head(lines)) # -1 THEN Interface(Head(lines))
    ELSE Search(Tail(lines))

\* re.search(r'## Interface:\s+(?P<v>\d+)', _read(path)): the version of the
\* first directive, -1 when the text has none.
GameVersion(bytes) == Search(_read(bytes).val)

\* The scan reads every manifest before find_addons yields anything: it
\* raises when one of them cannot be decoded.
Unreadable(tree) == \E f \in tree : IsToc(f.name) /\ _read(f.bytes).exc # None

_find_toc_files(tree, max_game_version) ==
    {f \in tree : /\ IsToc(f.name)
                  /\ GameVersion(f.bytes) # -1
                  /\ GameVersion(f.bytes) <= max_game_version}

\* sort_key: len(toc.path.parents); manifests of one depth keep the order the
\* scan found them in, here the order of their directories' names.
TocBefore(f, g) ==
    \/ Len(f.dir) < Len(g.dir)
    \/ /\ Len(f.dir) = Len(g.dir)
       /\ f.dir # <<>>
       /\ Rank(f.dir[Len(f.dir)]) <= Rank(g.dir[Len(g.dir)])
    \/ Len(f.dir) = Len(g.dir) /\ f.dir = <<>>

RECURSIVE SortedTocs(_)
SortedTocs(tocs) ==
    IF tocs = {} THEN <<>>
    ELSE LET f == CHOOSE x \in tocs : \A y \in tocs : TocBefore(x, y)
         IN <<f>> \o SortedTocs(tocs \ {f})

Addon(name, path) == [name |-> name, path |-> path]

\* A loop that yields every manifest, whatever was yielded before.
RECURSIVE YieldEvery(_, _)
YieldEvery(tocs, addon_paths) ==
    IF tocs = <<>> THEN <<>>
    ELSE <<Addon(Stem(Head(tocs).name), Head(tocs).dir)>> \o YieldEvery(Tail(tocs), addon_paths)

\* The loop of find_addons over the sorted manifests: addon_paths are the
\* roots already yielded.
RECURSIVE YieldAddons(_, _)
YieldAddons(tocs, addon_paths) ==
    IF tocs = <<>> THEN <<>>
    ELSE LET f == Head(tocs)
         IN IF \A a \in addon_paths : ~IsPrefix(a, f.dir)
            THEN <<Addon(Stem(f.name), f.dir)>> \o YieldAddons(Tail(tocs), addon_paths \cup {f.dir})
            ELSE YieldAddons(Tail(tocs), addon_paths)

find_addons(tree, max_game_version) ==
    YieldAddons(SortedTocs(_find_toc_files(tree, max_game_version)), {})

(***************************************************************************)
(* mygit.py                                                                *)
(***************************************************************************)
DefaultBranch == "main"

RepositoryInfo(tree, branch, commit) ==
    [workdir |-> tree, branch |-> branch, head_commit_hex |-> commit,
     head_commit_time |-> CommitTime(commit)]

\* clone: the branch asked for, or the remote's default branch when none is.
clone(rem, url, branch) ==
    LET b == IF branch = None THEN DefaultBranch ELSE branch
    IN IF ~rem[url].up \/ rem[url].heads[b] = NoRef THEN Raise("GitError")
       ELSE Return(RepositoryInfo(WorkTree(url, rem[url].heads[b]), b, rem[url].heads[b]))

RemoteStateRequest(url, branch) == [url |-> url, branch |-> branch]

RemoteState(url, branch, head_commit_hex) ==
    [url |-> url, branch |-> branch, head_commit_hex |-> head_commit_hex]

\* state.error: the optional error of a RemoteState.  The class fetch_states
\* builds declares url, branch and head_commit_hex only and no listing error is
\* ever stored in it, so the field get_addon_states reads is taken as the data
\* model's optional error, which is null.
ErrorOf(state) == None

Ref(name, symref_target, oid) == [name |-> name, symref_target |-> symref_target, oid |-> oid]

branch_ref(branch) == <<"refs/heads/", branch>>

\* remote.ls_remotes(): HEAD pointing at the default branch, then the branches.
ls_remotes(rem, url) ==
    LET bs == Sorted({b \in Branches : rem[url].heads[b] # NoRef})
    IN (IF rem[url].heads[DefaultBranch] # NoRef
        THEN <<Ref(<<"HEAD">>, branch_ref(DefaultBranch), rem[url].heads[DefaultBranch])>>
        ELSE <<>>)
       \o [i \in 1..Len(bs) |-> Ref(branch_ref(bs[i]), <<>>, rem[url].heads[bs[i]])]

\* The inner loop of fetch_states for one branch: the first matching ref.
RECURSIVE FirstMatch(_, _)
FirstMatch(refs, branch) ==
    IF refs = <<>> THEN <<>>
    ELSE LET ref == Head(refs)
         IN IF \/ ref.name = <<"HEAD">> /\ ref.symref_target = branch_ref(branch)
               \/ ref.name = branch_ref(branch)
            THEN <<ref.oid>>
            ELSE FirstMatch(Tail(refs), branch)

\* The states one listing result adds: one per requested branch that is found.
RECURSIVE StatesOf(_, _, _)
StatesOf(url, refs, branches) ==
    IF branches = <<>> THEN <<>>
    ELSE LET found == FirstMatch(refs, Head(branches))
         IN (IF found = <<>> THEN <<>> ELSE <<RemoteState(url, Head(branches), found[1])>>)
            \o StatesOf(url, refs, Tail(branches))

\* A remote per request, whether or not its url has one already.
RemotesOfEach(requests, seen) == [i \in DOMAIN requests |-> requests[i].url]

\* The urls of the requests in the order of their first request (repo.remotes).
RECURSIVE RemotesOf(_, _)
RemotesOf(requests, seen) ==
    IF requests = <<>> THEN <<>>
    ELSE IF Head(requests).url \in seen THEN RemotesOf(Tail(requests), seen)
    ELSE <<Head(requests).url>> \o RemotesOf(Tail(requests), seen \cup {Head(requests).url})

\* remote_name_to_branches[url]: the branches requested of url, in request order.
RECURSIVE BranchesOf(_, _)
BranchesOf(requests, url) ==
    IF requests = <<>> THEN <<>>
    ELSE (IF Head(requests).url = url THEN <<Head(requests).branch>> ELSE <<>>)
         \o BranchesOf(Tail(requests), url)

\* fetch_states: the listings complete in the order `completed`; the result of a
\* failed listing raises out of the loop.
fetch_states(rem, requests, completed) ==
    IF \E i \in DOMAIN completed : ~rem[completed[i]].up THEN Raise("GitError")
    ELSE Return(Flatten([i \in DOMAIN completed |->
                           StatesOf(completed[i], ls_remotes(rem, completed[i]),
                                    BranchesOf(requests, completed[i]))]))

(***************************************************************************)
(* snapjaw.py: the config and the reconciliation.                          *)
(***************************************************************************)
EmptyDict == [k \in {} |-> None]
Put(d, k, v) == [x \in DOMAIN d \cup {k} |-> IF x = k THEN v ELSE d[x]]
Del(d, k) == [x \in DOMAIN d \ {k} |-> d[x]]

ConfigAddon(name, url, branch, commit, released_at, installed_at, checksum) ==
    [name |-> name, url |-> url, branch |-> branch, commit |-> commit,
     released_at |-> released_at, installed_at |-> installed_at, checksum |-> checksum]

\* The keys in descending order.
DescendingKeys(d) == Reverse(Sorted(DOMAIN d))

\* sort_addons_dict: the keys in the order the sorted dict holds them.
sort_addons_dict(d) == Sorted(DOMAIN d)

\* dict.values() of a dict that sort_addons_dict has sorted by key.
Values(d) == LET ks == sort_addons_dict(d) IN [i \in 1..Len(ks) |-> d[ks[i]]]

\* Config.load_or_setup
load_or_setup(file) == IF file.exists THEN file.addons ELSE EmptyDict

\* Config.save
save(config) == FileOf(config)

AddonState(addon, status, error, released_at, installed_at) ==
    [addon |-> addon, status |-> status, error |-> error,
     released_at |-> released_at, installed_at |-> installed_at]

AddonStatus == {"unknown", "modified", "up-to-date", "outdated", "untracked", "missing", "error"}

\* url_to_branch_to_addons[url][branch]
RECURSIVE GroupOf(_, _, _)
GroupOf(addons, url, branch) ==
    IF addons = <<>> THEN <<>>
    ELSE (IF Head(addons).url = url /\ Head(addons).branch = branch THEN <<Head(addons)>> ELSE <<>>)
         \o GroupOf(Tail(addons), url, branch)

\* The if/elif chain of get_addon_states for one addon of one remote state; ok
\* is what signature.validate gives for the addon, which the chain calls in its
\* third branch only.
StateOfAddon(state, addon, ok) ==
    IF ErrorOf(state) # None
    THEN Return(AddonState(addon.name, "error", ErrorOf(state), addon.released_at, addon.installed_at))
    ELSE IF state.head_commit_hex = None
    THEN Return(AddonState(addon.name, "unknown", None, addon.released_at, addon.installed_at))
    ELSE IF ok.exc # None THEN ok
    ELSE IF ~ok.val
    THEN Return(AddonState(addon.name, "modified", None, addon.released_at, addon.installed_at))
    ELSE IF state.head_commit_hex = addon.commit
    THEN Return(AddonState(addon.name, "up-to-date", None, addon.released_at, addon.installed_at))
    ELSE Return(AddonState(addon.name, "outdated", None, addon.released_at, addon.installed_at))

\* addon_key_to_state[addon_key(addon.name)] = AddonState(...), unless the chain
\* raised.
PutState(m, st) ==
    IF st.exc # None THEN st ELSE Return(Put(m, addon_key(st.val.addon), st.val))

\* The inner loop over the addons of one remote state; acc is the map so far, or
\* the exception that ended the loops.
RECURSIVE AddonsLoop(_, _, _, _)
AddonsLoop(dsk, state, addons, acc) ==
    IF addons = <<>> \/ acc.exc # None THEN acc
    ELSE AddonsLoop(dsk, state, Tail(addons),
                    PutState(acc.val,
                             StateOfAddon(state, Head(addons),
                                          validate(dsk[Head(addons).name], Head(addons).checksum))))

\* The outer loop over the remote states.
RECURSIVE StatesLoop(_, _, _, _)
StatesLoop(dsk, config, states, acc) ==
    IF states = <<>> \/ acc.exc # None THEN acc
    ELSE StatesLoop(dsk, config, Tail(states),
                    AddonsLoop(dsk, Head(states),
                               GroupOf(Values(config), Head(states).url, Head(states).branch), acc))

\* The scan of os.listdir(addons_dir), in the order `names`.
RECURSIVE ListdirLoop(_, _, _)
ListdirLoop(dsk, names, m) ==
    IF names = <<>> THEN m
    ELSE LET name == Head(names)
             name_key == addon_key(name)
         IN IF dsk[name].isdir /\ ~StartsWithBlizzard(name) /\ name_key \notin DOMAIN m
            THEN ListdirLoop(dsk, Tail(names),
                             Put(m, name_key, AddonState(name, "untracked", None, NoTime, NoTime)))
            ELSE ListdirLoop(dsk, Tail(names), m)

\* The records without a state so far.
MissingLoop(config, m) ==
    [k \in DOMAIN m \cup DOMAIN config |->
        IF k \in DOMAIN m THEN m[k] ELSE AddonState(k, "missing", None, NoTime, NoTime)]

\* get_addon_states; env gives the order the listings completed in and the order
\* os.listdir enumerates in.
get_addon_states(config, dsk, rem, env) ==
    LET addons == Values(config)
        requests == [i \in 1..Len(addons) |-> RemoteStateRequest(addons[i].url, addons[i].branch)]
        remotes == RemotesOf(requests, {})
        entries == Sorted({n \in DOMAIN dsk : dsk[n].isdir})
        fetched == fetch_states(rem, requests, IF env.completed THEN remotes ELSE Reverse(remotes))
        r == StatesLoop(dsk, config, fetched.val,
                        IF fetched.exc # None THEN fetched ELSE Return(EmptyDict))
    IN IF r.exc # None THEN r
       ELSE Return(Values(MissingLoop(config,
                      ListdirLoop(dsk, IF env.listdir THEN entries ELSE Reverse(entries), r.val))))

(***************************************************************************)
(* snapjaw.py: the commands.  A command body works on st: the config in    *)
(* memory (mem), the config file (file), the add-ons directory (dsk), the  *)
(* records saved while the command ran (saved), the add-on directories     *)
(* written so far (n), and the exception that ended the body (exc).        *)
(***************************************************************************)
MaxGameVersion == 11200

Begin(file, dsk) ==
    [exc |-> None, mem |-> load_or_setup(file), file |-> file, dsk |-> dsk,
     saved |-> EmptyDict, n |-> 0]

Fail(st, kind) == [st EXCEPT !.exc = kind]

\* shutil.ignore_patterns('.git*')
IsGitName(name) == name \in {".git"}

IgnoreGit(tree) == {f \in tree : ~IsGitName(f.name) /\ \A i \in DOMAIN f.dir : ~IsGitName(f.dir[i])}

\* glob over '*readme*', '*.txt', '*.html'
IsReadme(name) == name \in {"readme.txt"}

\* shutil.copytree of the add-on's root, then the root's readme files that the
\* copy does not have.
CopyAddon(workdir, path) ==
    LET copied == IgnoreGit(SubTree(workdir, path))
    IN IF path # <<>>
       THEN copied \cup {f \in workdir : /\ f.dir = <<>>
                                         /\ IsReadme(f.name)
                                         /\ f.name \notin FilesIn(copied, <<>>)}
       ELSE copied

\* The loop of install_addon over the add-ons found; the copy of the add-on
\* numbered failAt fails after its old directory was removed.
RECURSIVE InstallLoop(_, _, _, _, _, _)
InstallLoop(st, addons, repo, repo_url, clock, failAt) ==
    IF addons = <<>> THEN st
    ELSE LET addon == Head(addons)
             removed == [st.dsk EXCEPT ![addon.name] = NoDir]
             written == [st.dsk EXCEPT ![addon.name] = Dir(CopyAddon(repo.workdir, addon.path))]
             record == ConfigAddon(addon.name, repo_url, repo.branch, repo.head_commit_hex,
                                   repo.head_commit_time, <<clock>>,
                                   calculate(written[addon.name]).val)
             mem == Put(st.mem, addon_key(addon.name), record)
         IN IF failAt = st.n + 1
            THEN [st EXCEPT !.exc = "OSError", !.dsk = removed, !.n = st.n + 1]
            ELSE InstallLoop([st EXCEPT !.mem = mem, !.file = save(mem), !.dsk = written,
                                        !.saved = Put(st.saved, addon_key(addon.name), record),
                                        !.n = st.n + 1],
                             Tail(addons), repo, repo_url, clock, failAt)

\* An install that goes on with whatever was found.
InstallFound(st, rem, repo_url, branch, clock, failAt) ==
    IF clone(rem, repo_url, branch).exc # None THEN Fail(st, "CliError")
    ELSE InstallLoop(st, find_addons(clone(rem, repo_url, branch).val.workdir, MaxGameVersion),
                     clone(rem, repo_url, branch).val, repo_url, clock, failAt)

install_addon(st, rem, repo_url, branch, clock, failAt) ==
    LET repo == clone(rem, repo_url, branch)
    IN IF repo.exc # None THEN Fail(st, "CliError")
       ELSE LET addons == find_addons(repo.val.workdir, MaxGameVersion)
            IN IF addons = <<>> THEN Fail(st, "CliError")
               ELSE InstallLoop(st, addons, repo.val, repo_url, clock, failAt)

\* cmd_install: branch is --branch, branch_from_url the branch the url names.
cmd_install(st, rem, repo_url, branch, branch_from_url, clock, failAt) ==
    IF branch # None /\ branch_from_url # None /\ branch # branch_from_url
    THEN Fail(st, "CliError")
    ELSE install_addon(st, rem, repo_url, IF branch # None THEN branch ELSE branch_from_url,
                       clock, failAt)

\* cmd_remove; the removal of the directory numbered failAt fails.
RECURSIVE cmd_remove(_, _, _)
cmd_remove(st, names, failAt) ==
    IF names = <<>> THEN st
    ELSE LET key == addon_key(Head(names))
         IN IF key \notin DOMAIN st.mem THEN cmd_remove(st, Tail(names), failAt)
            ELSE IF failAt = st.n + 1
            THEN [st EXCEPT !.exc = "OSError", !.mem = Del(st.mem, key), !.n = st.n + 1]
            ELSE cmd_remove([st EXCEPT !.mem = Del(st.mem, key),
                                       !.dsk = [st.dsk EXCEPT ![st.mem[key].name] = NoDir],
                                       !.n = st.n + 1],
                            Tail(names), failAt)

\* The loop of cmd_update over the add-ons to update.
RECURSIVE UpdateLoop(_, _, _, _, _)
UpdateLoop(st, addons, rem, clock, failAt) ==
    IF addons = <<>> \/ st.exc # None THEN st
    ELSE UpdateLoop(install_addon(st, rem, Head(addons).url, Head(addons).branch, clock, failAt),
                    Tail(addons), rem, clock, failAt)

\* The records of the report's outdated entries, in the report's order.
RECURSIVE Outdated(_, _)
Outdated(config, states) ==
    IF states = <<>> THEN <<>>
    ELSE (IF Head(states).error = None /\ Head(states).status = "outdated"
          THEN <<config[addon_key(Head(states).addon)]>> ELSE <<>>)
         \o Outdated(config, Tail(states))

\* cmd_update; report is what get_addon_states gave when no name is given.
cmd_update(st, names, report, rem, clock, failAt) ==
    IF names # <<>>
    THEN IF \E i \in DOMAIN names : addon_key(names[i]) \notin DOMAIN st.mem
         THEN Fail(st, "ArgumentTypeError")
         ELSE UpdateLoop(st, [i \in DOMAIN names |-> st.mem[addon_key(names[i])]], rem, clock, failAt)
    ELSE IF report.exc # None THEN Fail(st, report.exc)
    ELSE UpdateLoop(st, Outdated(st.mem, report.val), rem, clock, failAt)

\* cmd_status: the report is printed; the exception of get_addon_states ends it.
cmd_status(st, report) == IF report.exc # None THEN Fail(st, report.exc) ELSE st

\* A run_command that saves and restores whatever read_only says.
FinalFileOfWriter(read_only, st, backup) ==
    IF st.exc = None THEN save(st.mem)
    ELSE IF backup.exists THEN backup
    ELSE st.file

\* run_command after the callback: the final save, or the restore of the backup.
FinalFile(read_only, st, backup) ==
    IF read_only THEN st.file
    ELSE IF st.exc = None THEN save(st.mem)
    ELSE IF backup.exists THEN backup
    ELSE st.file

\* run_command before the callback: the backup of an existing config.
Backup(read_only, file, backup) ==
    IF ~read_only /\ file.exists THEN file ELSE backup

(***************************************************************************)
(* The state machine: one action per command, and the world's changes.     *)
(***************************************************************************)
DirNames == {"Foo", "foo", "Bar", "Misc", "Blizzard_UI"}
\* The names a remove or update command is given: of a record in another
\* case, of a record, of no record.
NameLists == {<<"foo">>, <<"Bar">>, <<"Zed">>, <<"foo", "Bar">>, <<"Bar", "Zed">>, <<"Zed", "foo">>}
\* --branch and the branch the url names, of an install command.
BranchArgs == {<<None, None>>, <<"dev", None>>, <<None, "dev">>, <<"main", "dev">>}
Envs == [completed : BOOLEAN, listdir : BOOLEAN]

NoReport == Raise("NoReport")

\* No function is called on its own, and no fetch_states runs step by step.
NoCall == [fn |-> None]
NoFetch == [pc |-> None]

Last(cmd, names, outcome, report, saved) ==
    [cmd |-> cmd, names |-> names, outcome |-> outcome, report |-> report, saved |-> saved]

Init ==
    /\ cfgFile = NoFile
    /\ bakFile = NoFile
    /\ disk = [n \in DirNames |->
                 IF n \in {"Misc", "Blizzard_UI"} THEN Dir({File(<<>>, "core.lua", "v1")}) ELSE NoDir]
    /\ remote = [u \in Urls |->
                   [up |-> TRUE,
                    heads |-> [b \in Branches |-> IF b = "dev" /\ u = "U2" THEN "c2" ELSE "c1"]]]
    /\ now = 0
    /\ last = Last("init", <<>>, None, NoReport, EmptyDict)
    /\ arg = NoCall
    /\ ret = NoCall
    /\ fetch = NoFetch

\* run_command around a mutating callback whose body ended in st.
Mutate(cmd, names, report, st) ==
    /\ cfgFile' = FinalFile(FALSE, st, Backup(FALSE, cfgFile, bakFile))
    /\ bakFile' = Backup(FALSE, cfgFile, bakFile)
    /\ disk' = st.dsk
    /\ now' = now + 1
    /\ last' = Last(cmd, names, st.exc, report, st.saved)
    /\ UNCHANGED remote
    /\ UNCHANGED side

Install ==
    /\ now < MaxCmds
    /\ \E url \in Urls, branches \in BranchArgs, failAt \in 0..MaxFailAt :
          Mutate("install", <<url, branches[1], branches[2]>>, NoReport,
                 cmd_install(Begin(cfgFile, disk), remote, url, branches[1], branches[2],
                             now + 1, failAt))

Remove ==
    /\ now < MaxCmds
    /\ \E names \in NameLists, failAt \in 0..MaxFailAt :
          Mutate("remove", names, NoReport, cmd_remove(Begin(cfgFile, disk), names, failAt))

Update ==
    /\ now < MaxCmds
    /\ \E failAt \in 0..MaxFailAt :
          \/ \E names \in NameLists :
                Mutate("update", names, NoReport,
                       cmd_update(Begin(cfgFile, disk), names, NoReport, remote, now + 1, failAt))
          \/ \E env \in Envs :
                LET report == get_addon_states(load_or_setup(cfgFile), disk, remote, env)
                IN Mutate("update", <<>>, report,
                          cmd_update(Begin(cfgFile, disk), <<>>, report, remote, now + 1, failAt))

\* run_command around cmd_status, which is read-only.
Status ==
    /\ \E env \in Envs :
          LET report == get_addon_states(load_or_setup(cfgFile), disk, remote, env)
          IN /\ last' = Last("status", <<>>, report.exc, report, EmptyDict)
             /\ cfgFile' = FinalFile(TRUE, cmd_status(Begin(cfgFile, disk), report),
                                     Backup(TRUE, cfgFile, bakFile))
    /\ bakFile' = Backup(TRUE, cfgFile, bakFile)
    /\ UNCHANGED <<disk, remote, now>>
    /\ UNCHANGED side

\* A change of the world ends what the last command is known by.
World == last' = Last("world", <<>>, None, NoReport, EmptyDict) /\ UNCHANGED side

\* The user edits a file of an installed add-on.
EditDir ==
    /\ \E n \in {"Foo", "foo", "Bar"} :
          /\ disk[n].isdir
          /\ disk' = [disk EXCEPT ![n] = Dir({f \in disk[n].tree : f.dir # <<>> \/ f.name # "core.lua"}
                                             \cup {File(<<>>, "core.lua", "ed")})]
    /\ World
    /\ UNCHANGED <<cfgFile, bakFile, remote, now>>

\* The user deletes the directory of an add-on.
DeleteDir ==
    /\ \E n \in {"Foo", "foo", "Bar"} :
          /\ disk[n].isdir
          /\ disk' = [disk EXCEPT ![n] = NoDir]
    /\ World
    /\ UNCHANGED <<cfgFile, bakFile, remote, now>>

\* A commit is pushed to the main branch of U1.
Push ==
    /\ remote["U1"].heads["main"] = "c1"
    /\ remote' = [remote EXCEPT !["U1"].heads["main"] = "c2"]
    /\ World
    /\ UNCHANGED <<cfgFile, bakFile, disk, now>>

\* The dev branch of U1 is deleted on the remote.
DeleteBranch ==
    /\ remote["U1"].heads["dev"] # NoRef
    /\ remote' = [remote EXCEPT !["U1"].heads["dev"] = NoRef]
    /\ World
    /\ UNCHANGED <<cfgFile, bakFile, disk, now>>

\* U1 becomes unreachable, or reachable again.
Reachability ==
    /\ remote' = [remote EXCEPT !["U1"].up = ~remote["U1"].up]
    /\ World
    /\ UNCHANGED <<cfgFile, bakFile, disk, now>>

Next ==
    \/ Install
    \/ Remove
    \/ Update
    \/ Status
    \/ EditDir
    \/ DeleteDir
    \/ Push
    \/ DeleteBranch
    \/ Reachability

Spec == Init /\ [][Next]_vars

(***************************************************************************)
(* A config written before fingerprints were stored as they are now: the   *)
(* status command on it, and the world's changes.                          *)
(***************************************************************************)
\* The directory of the add-on Bar as installed from the first commit of U1.
BarInstalled == Dir(CopyAddon(WorkTree("U1", "c1"), <<"Bar">>))

\* The checksum field of the record: null, a bare digest, a signature of
\* the latest version.
StoredChecksums ==
    {NoneSig, _get_checksum(BarInstalled, 1).val, calculate(BarInstalled).val}

LegacyInit ==
    /\ \E checksum \in StoredChecksums :
          cfgFile = FileOf(Put(EmptyDict, addon_key("Bar"),
                               ConfigAddon("Bar", "U1", "main", "c1", CommitTime("c1"), <<0>>,
                                           checksum)))
    /\ bakFile = NoFile
    /\ disk = [n \in DirNames |->
                 IF n = "Bar" THEN BarInstalled
                 ELSE IF n \in {"Misc", "Blizzard_UI"} THEN Dir({File(<<>>, "core.lua", "v1")})
                 ELSE NoDir]
    /\ remote = [u \in Urls |->
                   [up |-> TRUE,
                    heads |-> [b \in Branches |-> IF b = "dev" /\ u = "U2" THEN "c2" ELSE "c1"]]]
    /\ now = 0
    /\ last = Last("init", <<>>, None, NoReport, EmptyDict)
    /\ arg = NoCall
    /\ ret = NoCall
    /\ fetch = NoFetch

LegacyNext ==
    \/ Status
    \/ EditDir
    \/ DeleteDir
    \/ Push
    \/ DeleteBranch
    \/ Reachability

LegacySpec == LegacyInit /\ [][LegacyNext]_vars

(***************************************************************************)
(* fetch_states step by step: the foreground thread creates the remotes,   *)
(* submits one listing task per remote and takes the results as they       *)
(* complete; each task lists its remote on a thread of its own.            *)
(***************************************************************************)
RequestLists ==
    UNION {[1..k -> {RemoteStateRequest(u, b) : u \in Urls, b \in Branches}] : k \in 0..MaxRequests}

\* The remotes a run may meet: each url reachable or not, the branches of U1
\* there or not.
RemoteChoices ==
    {[u \in Urls |->
        [up |-> up[u],
         heads |-> [b \in Branches |->
                      IF u = "U2" THEN (IF b = "dev" THEN "c2" ELSE "c1")
                      ELSE IF b \in there THEN "c1" ELSE NoRef]]] :
        up \in [Urls -> BOOLEAN], there \in SUBSET Branches}

FetchInit ==
    /\ cfgFile = NoFile
    /\ bakFile = NoFile
    /\ disk = [n \in DirNames |-> NoDir]
    /\ remote \in RemoteChoices
    /\ now = 0
    /\ last = Last("init", <<>>, None, NoReport, EmptyDict)
    /\ arg = NoCall
    /\ ret = NoCall
    /\ \E requests \in RequestLists :
          fetch = [pc |-> "submit", requests |-> requests, remotes |-> <<>>, task |-> <<>>,
                   calls |-> [u \in Urls |-> 0], completed |-> <<>>, taken |-> 0,
                   states |-> <<>>]

\* The remotes are created, one per url not seen before, and one listing task
\* per remote is submitted.
Submit ==
    /\ fetch.pc = "submit"
    /\ fetch' = [fetch EXCEPT !.pc = "collect",
                               !.remotes = RemotesOf(fetch.requests, {}),
                               !.task = [i \in 1..Len(RemotesOf(fetch.requests, {})) |-> "running"]]
    /\ UNCHANGED <<main, arg, ret>>

\* A task lists its remote, and completes or fails.
Ls ==
    /\ \E i \in DOMAIN fetch.task :
          /\ fetch.task[i] = "running"
          /\ fetch' = [fetch EXCEPT !.task[i] = IF remote[fetch.remotes[i]].up THEN "done" ELSE "failed",
                                     !.calls[fetch.remotes[i]] = @ + 1,
                                     !.completed = Append(@, i)]
    /\ UNCHANGED <<main, arg, ret>>

\* The foreground thread takes the next completed task: future.result() raises
\* when the task failed, and else the states of its branches are appended.
Collect ==
    /\ fetch.pc = "collect"
    /\ fetch.taken < Len(fetch.completed)
    /\ fetch' = IF fetch.task[fetch.completed[fetch.taken + 1]] = "failed"
                 THEN [fetch EXCEPT !.pc = "raised"]
                 ELSE [fetch EXCEPT
                         !.taken = @ + 1,
                         !.states = @ \o StatesOf(fetch.remotes[fetch.completed[fetch.taken + 1]],
                                                  ls_remotes(remote, fetch.remotes[fetch.completed[fetch.taken + 1]]),
                                                  BranchesOf(fetch.requests,
                                                             fetch.remotes[fetch.completed[fetch.taken + 1]]))]
    /\ UNCHANGED <<main, arg, ret>>

\* A fetch_states that returns with the states of the first task it took.
ReturnAfterFirst ==
    /\ fetch.pc = "collect"
    /\ fetch.taken >= 1
    /\ fetch' = [fetch EXCEPT !.pc = "returned"]
    /\ UNCHANGED <<main, arg, ret>>

\* Every task was taken: fetch_states returns the states.
ReturnStates ==
    /\ fetch.pc = "collect"
    /\ fetch.taken = Len(fetch.remotes)
    /\ fetch' = [fetch EXCEPT !.pc = "returned"]
    /\ UNCHANGED <<main, arg, ret>>

FetchNext ==
    \/ Submit
    \/ Ls
    \/ Collect
    \/ ReturnStates

FetchSpec == FetchInit /\ [][FetchNext]_vars

(***************************************************************************)
(* A status or update command step by step: run_command loads the config,  *)
(* get_addon_states runs fetch_states with its listing tasks, and the      *)
(* foreground thread goes on when fetch_states has returned or raised.     *)
(***************************************************************************)
\* The add-ons directory and config after `install U1` and `install U2` at
\* the first commits: the records bar (Bar, of U1) and foo (foo, of U2).
FirstCommits == [u \in Urls |-> [up |-> TRUE, heads |-> [b \in Branches |-> "c1"]]]
InstalledU1 == install_addon(Begin(NoFile, [n \in DirNames |-> NoDir]), FirstCommits, "U1", None, 1, 0)
InstalledU2 == install_addon(Begin(InstalledU1.file, InstalledU1.dsk), FirstCommits, "U2", None, 2, 0)

\* The remotes the command meets: each url reachable or not, its main branch
\* at the first or at the second commit.
RemotesMet ==
    {[u \in Urls |-> [up |-> up[u], heads |-> [b \in Branches |-> head[u]]]] :
        up \in [Urls -> BOOLEAN], head \in [Urls -> Commits]}

\* requests of get_addon_states: one per record, in the order of the records.
RequestsOf(config) ==
    [i \in 1..Len(Values(config)) |->
        RemoteStateRequest(Values(config)[i].url, Values(config)[i].branch)]

\* get_addon_states after fetch_states has returned the states: the loops
\* over the states, the directory and the records.
ReportOf(config, dsk, states, names) ==
    LET r == StatesLoop(dsk, config, states, Return(EmptyDict))
    IN IF r.exc # None THEN r
       ELSE Return(Values(MissingLoop(config, ListdirLoop(dsk, names, r.val))))

CommandInit ==
    /\ cfgFile = InstalledU2.file
    /\ \E cmd \in {"status", "update"} :
          /\ arg = [fn |-> cmd]
          /\ bakFile = Backup(cmd = "status", InstalledU2.file, InstalledU1.file)
    /\ disk = InstalledU2.dsk
    /\ remote \in RemotesMet
    /\ now = 2
    /\ last = Last("init", <<>>, None, NoReport, EmptyDict)
    /\ ret = [fn |-> "running", mem |-> load_or_setup(InstalledU2.file), exc |-> None]
    /\ fetch = [pc |-> "submit", requests |-> RequestsOf(load_or_setup(InstalledU2.file)),
                remotes |-> <<>>, task |-> <<>>, calls |-> [u \in Urls |-> 0],
                completed |-> <<>>, taken |-> 0, states |-> <<>>]

\* fetch_states has returned: get_addon_states makes the report, and the
\* command goes on to its end on the foreground thread; cmd_update installs
\* the outdated add-ons, which writes their records into the mapping.
Proceed ==
    /\ fetch.pc = "returned" /\ ret.fn = "running"
    /\ \E listdir \in BOOLEAN, failAt \in 0..MaxFailAt, end \in {Begin(cfgFile, disk)} :
          \E report \in {ReportOf(ret.mem, disk,  fetch.states,
                                   IF listdir THEN Sorted({n \in DOMAIN disk : disk[n].isdir})
                                   ELSE Reverse(Sorted({n \in DOMAIN disk : disk[n].isdir})))} :
             \E st \in {IF arg.fn = "status" THEN cmd_status(end, report)
                         ELSE cmd_update(end, <<>>, report, remote, now + 1, failAt)} :
                /\ ret' = [fn |-> "done", mem |-> st.mem, exc |-> st.exc]
                /\ cfgFile' = FinalFile(arg.fn = "status", st, bakFile)
                /\ disk' = st.dsk
    /\ UNCHANGED <<bakFile, remote, now, last, arg, fetch>>

\* fetch_states has raised: the exception ends the command, and run_command
\* restores the backup unless the command is read-only.
Abort ==
    /\ fetch.pc = "raised" /\ ret.fn = "running"
    /\ ret' = [fn |-> "done", mem |-> ret.mem, exc |-> "GitError"]
    /\ cfgFile' = FinalFile(arg.fn = "status", Fail(Begin(cfgFile, disk), "GitError"), bakFile)
    /\ UNCHANGED <<bakFile, disk, remote, now, last, arg, fetch>>

CommandNext ==
    \/ Submit
    \/ Ls
    \/ Collect
    \/ ReturnStates
    \/ Proceed
    \/ Abort

CommandSpec == CommandInit /\ [][CommandNext]_vars

(***************************************************************************)
(* The fingerprint functions on their own: calculate and validate applied  *)
(* to two directory trees.                                                 *)
(***************************************************************************)
\* What a fingerprinted tree may hold: empty directories a, b and ab, a file
\* f with either content and a file g in the root, a file f in directory a
\* and in directory b.
TreeEntries ==
    {Folder(<<"a">>), Folder(<<"b">>), Folder(<<"ab">>),
     File(<<>>, "f", "x"), File(<<>>, "f", "y"), File(<<>>, "g", "x"),
     File(<<"a">>, "f", "x"), File(<<"b">>, "f", "x")}

\* A tree has one content per file path, and a directory entered as holding
\* nothing holds nothing.
IsTree(t) ==
    /\ \A f, g \in t : (IsFile(f) /\ IsFile(g) /\ f.dir = g.dir /\ f.name = g.name) => f = g
    /\ \A d, f \in t : (~IsFile(d) /\ IsPrefix(d.dir, f.dir)) => f = d

Trees == {t \in SUBSET TreeEntries : Cardinality(t) <= MaxEntries /\ IsTree(t)}

\* A signature as stored before signatures carried a version: the bare digest.
LegacySignatures(tree) ==
    {_get_checksum(Dir(tree), 1).val, _get_checksum(Dir(tree), 2).val}

SigInit ==
    /\ cfgFile = NoFile
    /\ bakFile = NoFile
    /\ disk = [n \in DirNames |-> NoDir]
    /\ remote = [u \in Urls |-> [up |-> TRUE, heads |-> [b \in Branches |-> "c1"]]]
    /\ now = 0
    /\ last = Last("init", <<>>, None, NoReport, EmptyDict)
    /\ \E t1 \in Trees, t2 \in Trees, scan \in Scans :
          arg = [fn |-> "signature", t1 |-> t1, t2 |-> t2, scan |-> scan]
    /\ ret = NoCall
    /\ fetch = NoFetch

\* calculate(dirpath) on each of the two trees.
Calculate ==
    /\ arg.fn = "signature" /\ ret = NoCall
    /\ ret' = [fn |-> "calculate",
               s1 |-> calculate(DirOn(arg.t1, arg.scan)),
               s2 |-> calculate(DirOn(arg.t2, arg.scan))]
    /\ UNCHANGED <<main, arg, fetch>>

\* validate(dirpath, signature) of each tree against the signature calculated
\* for the first; the trees are as they were when it was calculated.
Validate ==
    /\ ret.fn = "calculate"
    /\ ret' = [fn |-> "validate", s1 |-> ret.s1, s2 |-> ret.s2,
               ok1 |-> validate(DirOn(arg.t1, arg.scan), ret.s1.val),
               ok2 |-> validate(DirOn(arg.t2, arg.scan), ret.s1.val)]
    /\ UNCHANGED <<main, arg, fetch>>

\* validate(dirpath, signature) of the second tree against a bare digest.
ValidateLegacy ==
    /\ arg.fn = "signature" /\ ret = NoCall
    /\ \E s \in LegacySignatures(arg.t1) :
          ret' = [fn |-> "legacy", signature |-> s, ok |-> validate(DirOn(arg.t2, arg.scan), s)]
    /\ UNCHANGED <<main, arg, fetch>>

\* calculate(dirpath) once more on the first tree, enumerated in some order.
Recalculate ==
    /\ ret.fn = "calculate"
    /\ \E scan \in Scans :
          ret' = [fn |-> "recalculate", s1 |-> ret.s1, scan |-> scan,
                   again |-> calculate(DirOn(arg.t1, scan))]
    /\ UNCHANGED <<main, arg, fetch>>

SigNext ==
    \/ Calculate
    \/ Validate
    \/ ValidateLegacy
    \/ Recalculate

SigSpec == SigInit /\ [][SigNext]_vars

(***************************************************************************)
(* find_addons on its own, applied to a cloned tree.                       *)
(***************************************************************************)
\* What a searched tree may hold: manifests in the root, in Foo (two of
\* them), below Foo, in Bar (for either game version) and below Bar, a
\* manifest without the directive, with several directives, with a line that
\* is no directive before the directive, one that cannot be decoded, and a
\* file that is no manifest.
ScannedEntries ==
    {File(<<>>, "foo.toc", "toc11200"),
     File(<<"Foo">>, "Foo.toc", "toc11200"),
     File(<<"Foo">>, "Bar.toc", "toc11200"),
     File(<<"Foo", "sub">>, "Nested.toc", "toc11200"),
     File(<<"Bar">>, "Bar.toc", "toc11200"),
     File(<<"Bar">>, "Bar.toc", "toc20000"),
     File(<<"Bar", "sub">>, "Nested.toc", "toc11200"),
     File(<<"New">>, "New.toc", "tocNone"),
     File(<<"New">>, "New.toc", "tocEarlyFirst"),
     File(<<"New">>, "New.toc", "tocLateFirst"),
     File(<<"New">>, "New.toc", "tocWord"),
     File(<<"New">>, "New.toc", "tocBinary"),
     File(<<"Foo">>, "core.lua", "v1")}

ScannedTrees == {t \in SUBSET ScannedEntries : Cardinality(t) <= MaxScanned /\ IsTree(t)}

FindInit ==
    /\ cfgFile = NoFile
    /\ bakFile = NoFile
    /\ disk = [n \in DirNames |-> NoDir]
    /\ remote = [u \in Urls |-> [up |-> TRUE, heads |-> [b \in Branches |-> "c1"]]]
    /\ now = 0
    /\ last = Last("init", <<>>, None, NoReport, EmptyDict)
    /\ \E t \in ScannedTrees : arg = [fn |-> "find_addons", tree |-> t]
    /\ ret = NoCall
    /\ fetch = NoFetch

\* list(find_addons(dir_path, max_game_version))
FindAddons ==
    /\ arg.fn = "find_addons" /\ ret = NoCall
    /\ \E max_game_version \in {MaxGameVersion, 20000} :
          ret' = [fn |-> "find_addons", max_game_version |-> max_game_version,
                   exc |-> IF Unreadable(arg.tree) THEN "ParseError" ELSE None,
                   addons |-> IF Unreadable(arg.tree) THEN <<>>
                              ELSE find_addons(arg.tree, max_game_version)]
    /\ UNCHANGED <<main, arg, fetch>>

FindNext == FindAddons

FindSpec == FindInit /\ [][FindNext]_vars

(***************************************************************************)
(* What the claims speak of.                                               *)
(***************************************************************************)
\* The config records as persisted.
Config == load_or_setup(cfgFile)

Mutating == {"install", "update", "remove"}

\* A status command has just run on the present config, disk and remotes.
Reconciled == last.cmd = "status"
Reported == Reconciled /\ last.report.exc = None

\* The entries of the report under key k, and those named n.
EntriesOf(k) == {i \in DOMAIN last.report.val : addon_key(last.report.val[i].addon) = k}
EntriesNamed(n) == {i \in DOMAIN last.report.val : last.report.val[i].addon = n}

\* The report has the record of key k with status s.
Reports(k, s) == Reported /\ \E i \in EntriesOf(k) : last.report.val[i].status = s

\* The head the remote of a record has for the record's branch.
HeadOf(r) == remote[r.url].heads[r.branch]
Resolved(r) == remote[r.url].up /\ HeadOf(r) # NoRef

\* validate returns, and returns b, for the record and its directory.
Verifies(r, b) == validate(disk[r.name], r.checksum) = Return(b)

Claimed(n) == addon_key(n) \in DOMAIN Config
Untrackable(n) == disk[n].isdir /\ ~Claimed(n) /\ ~StartsWithBlizzard(n)

\* C1: whenever reconcile has run, every config record whose add-on directory is
\* absent from the add-ons directory has status missing in the returned report.
C1_MissingReported ==
    Reconciled => \A k \in DOMAIN Config : ~disk[Config[k].name].isdir => Reports(k, "missing")

\* C2: whenever reconcile has run, every config record whose branch is absent
\* from the ref listing of its reachable remote has status unknown in the report.
C2_UnknownReported ==
    Reconciled =>
        \A k \in DOMAIN Config :
            (remote[Config[k].url].up /\ HeadOf(Config[k]) = NoRef) => Reports(k, "unknown")

\* The report reconcile gives for the present config and disk when every
\* endpoint is reachable.
AllUp == [u \in Urls |-> [remote[u] EXCEPT !.up = TRUE]]
ReportAllUp(env) == get_addon_states(Config, disk, AllUp, env)

\* C3: when the listing of an endpoint has failed, reconcile still returns a
\* report in which every record of a failed endpoint has status error with a
\* message and every other record has the status it has without the failure.
C3_EndpointFailureReported ==
    (Reconciled /\ \E k \in DOMAIN Config : ~remote[Config[k].url].up) =>
        /\ Reported
        /\ \A k \in DOMAIN Config :
              IF ~remote[Config[k].url].up
              THEN \E i \in EntriesOf(k) : /\ last.report.val[i].status = "error"
                                           /\ last.report.val[i].error # None
              ELSE \E env \in Envs, i \in EntriesOf(k) :
                      /\ ReportAllUp(env).exc = None
                      /\ \E j \in DOMAIN ReportAllUp(env).val :
                            /\ ReportAllUp(env).val[j].addon = last.report.val[i].addon
                            /\ ReportAllUp(env).val[j].status = last.report.val[i].status

\* C4: whenever reconcile has run, every config record whose head resolved and
\* whose fingerprint does not verify against its directory is reported modified,
\* whether or not its commit is the resolved head.
C4_ModifiedReported ==
    Reconciled =>
        \A k \in DOMAIN Config :
            (Resolved(Config[k]) /\ Verifies(Config[k], FALSE)) => Reports(k, "modified")

\* C5: whenever reconcile has run, every config record whose head resolved and
\* whose fingerprint verifies is reported up-to-date when the head is its
\* commit, and outdated when it is not.
C5_VersionReported ==
    Reconciled =>
        \A k \in DOMAIN Config :
            (Resolved(Config[k]) /\ Verifies(Config[k], TRUE)) =>
                Reports(k, IF HeadOf(Config[k]) = Config[k].commit THEN "up-to-date" ELSE "outdated")

\* C6: in a report of reconcile a directory is untracked exactly when no config
\* record has its lower-cased name as key and its name has no reserved prefix.
C6_UntrackedIffUnclaimed ==
    Reported =>
        \A n \in {d \in DirNames : disk[d].isdir} :
            (\E i \in EntriesNamed(n) : last.report.val[i].status = "untracked") <=> Untrackable(n)

\* C7: whatever the config, the disk and the remotes are, reconcile returns a
\* report with exactly one entry per config record and per unclaimed directory
\* without reserved prefix, each with one of the seven statuses.
C7_OneEntryEach ==
    Reconciled =>
        /\ Reported
        /\ \A k \in DOMAIN Config : Cardinality(EntriesOf(k)) = 1
        /\ \A n \in {d \in DirNames : Untrackable(d)} : Cardinality(EntriesNamed(n)) = 1
        /\ \A i \in DOMAIN last.report.val : last.report.val[i].status \in AddonStatus

\* C8: a mutating command that raises leaves the persisted config file as it
\* was before the command.
C8_FailureRevertsConfig ==
    [][(last'.cmd \in Mutating /\ last'.outcome # None) => cfgFile' = cfgFile]_vars

\* C9: after an install or update that raised, every record the command had
\* saved is still in the persisted config (stated in its weakest form: a record
\* of that name is still under that key).
C9_ProgressKept ==
    (last.cmd \in {"install", "update"} /\ last.outcome # None) =>
        \A k \in DOMAIN last.saved :
            /\ cfgFile.exists
            /\ k \in DOMAIN cfgFile.addons
            /\ cfgFile.addons[k].name = last.saved[k].name

\* C10: an update without names leaves the record and the directory of every
\* record that reconcile did not report outdated as they were.
C10_OnlyOutdatedTouched ==
    [][(last'.cmd = "update" /\ last'.names = <<>> /\ last'.report.exc = None) =>
          \A i \in DOMAIN last'.report.val :
              LET k == addon_key(last'.report.val[i].addon)
              IN (k \in DOMAIN Config /\ last'.report.val[i].status # "outdated") =>
                    /\ cfgFile'.exists
                    /\ k \in DOMAIN cfgFile'.addons
                    /\ cfgFile'.addons[k] = Config[k]
                    /\ disk'[Config[k].name] = disk[Config[k].name]]_vars

(***************************************************************************)
(* What does hold of the code: the statuses of the reports that reconcile  *)
(* returns, and the config file after a command that raised.               *)
(***************************************************************************)
\* In a report that reconcile returns, a resolved record whose fingerprint does
\* not verify is modified.
ReturnedModifiedFirst ==
    Reported =>
        \A k \in DOMAIN Config :
            (Resolved(Config[k]) /\ Verifies(Config[k], FALSE)) => Reports(k, "modified")

\* In a report that reconcile returns, a resolved record whose fingerprint
\* verifies is up-to-date when the head is its commit and outdated otherwise.
ReturnedVersion ==
    Reported =>
        \A k \in DOMAIN Config :
            (Resolved(Config[k]) /\ Verifies(Config[k], TRUE)) =>
                Reports(k, IF HeadOf(Config[k]) = Config[k].commit THEN "up-to-date" ELSE "outdated")

\* A report that reconcile returns has one entry per record and per unclaimed
\* directory without reserved prefix, each with one of the seven statuses.
ReturnedOneEntryEach ==
    Reported =>
        /\ \A k \in DOMAIN Config : Cardinality(EntriesOf(k)) = 1
        /\ \A n \in {d \in DirNames : Untrackable(d)} : Cardinality(EntriesNamed(n)) = 1
        /\ \A i \in DOMAIN last.report.val : last.report.val[i].status \in AddonStatus

\* A mutating command that raises leaves an existing config file as it was.
ExistingConfigReverted ==
    [][(last'.cmd \in Mutating /\ last'.outcome # None /\ cfgFile.exists) => cfgFile' = cfgFile]_vars

\* With no backup to restore, the records saved by an install or update that
\* raised stay in the config file.
ProgressKeptWithoutBackup ==
    (last.cmd \in {"install", "update"} /\ last.outcome # None /\ ~bakFile.exists) =>
        \A k \in DOMAIN last.saved :
            /\ cfgFile.exists
            /\ k \in DOMAIN cfgFile.addons
            /\ cfgFile.addons[k].name = last.saved[k].name

(***************************************************************************)
(* fetch_states                                                            *)
(***************************************************************************)
Returned == fetch.pc = "returned"
HandedBack == fetch.pc \in {"returned", "raised"}
StatesFor(r) == {i \in DOMAIN fetch.states : /\ fetch.states[i].url = r.url
                                               /\ fetch.states[i].branch = r.branch}

\* C11: when fetch_states has returned, every (url, branch) pair of its requests
\* has exactly one RemoteState among the states returned.
C11_OneStatePerPair ==
    Returned => \A i \in DOMAIN fetch.requests : Cardinality(StatesFor(fetch.requests[i])) = 1

\* The steps give what fetch_states gives for the order the tasks completed in.
StepsAgree ==
    LET order == [i \in DOMAIN fetch.completed |-> fetch.remotes[fetch.completed[i]]]
    IN /\ Returned => fetch_states(remote, fetch.requests, order) = Return(fetch.states)
       /\ fetch.pc = "raised" => fetch_states(remote, fetch.requests, order).exc = "GitError"

Requested(u) == \E i \in DOMAIN fetch.requests : fetch.requests[i].url = u
Running == {i \in DOMAIN fetch.task : fetch.task[i] = "running"}

\* C12: in a run of fetch_states for the requests of the config records, a url
\* that some request names is listed once and no more, however many requests
\* name it, and a url that no request names is not listed.
C12_EachUrlListedOnce ==
    \A u \in Urls :
        /\ fetch.calls[u] <= (IF Requested(u) THEN 1 ELSE 0)
        /\ (fetch.pc # "submit" /\ Running = {}) => fetch.calls[u] = (IF Requested(u) THEN 1 ELSE 0)

\* The run is over for three requests: two for two branches of one url, one for
\* another url.
C12_Witness ==
    /\ Returned
    /\ Running = {}
    /\ Len(fetch.requests) = 3
    /\ \A u \in Urls : Requested(u)
    /\ \E i, j \in DOMAIN fetch.requests :
          /\ fetch.requests[i].url = fetch.requests[j].url
          /\ fetch.requests[i].branch # fetch.requests[j].branch

\* C13: when fetch_states has handed control back, by returning or by raising,
\* no listing task is still running.
C13_NoTaskRunsOn == HandedBack => Running = {}

\* When fetch_states has returned, no listing task is still running.
ReturnedAfterAllTasks == Returned => Running = {}

(***************************************************************************)
(* The fingerprint.                                                        *)
(***************************************************************************)
Calculated == ret.fn \in {"calculate", "validate"}

\* C14: for every directory tree T, validate(T, calculate(T)) is true when T is
\* not changed between the two calls.
C14_ValidatesOwnSignature ==
    ret.fn = "validate" => ret.ok1 = Return(TRUE)

\* The case of C14: a tree with a file in its root and a file in a directory
\* below was fingerprinted and verified.
C14_Witness ==
    /\ ret.fn = "validate"
    /\ \E f, g \in arg.t1 : IsFile(f) /\ IsFile(g) /\ f.dir = <<>> /\ g.dir # <<>>
    /\ ret.s1.exc = None

\* C15: two trees that differ in a file's bytes, in a file's relative path or
\* in the shape of the tree get different fingerprints.
C15_DifferentTreesDiffer ==
    (Calculated /\ arg.t1 # arg.t2) => ret.s1 # ret.s2

\* Trees of files only that differ get different fingerprints.
FilesOnlyDiffer ==
    (Calculated /\ arg.t1 # arg.t2 /\ \A f \in arg.t1 \cup arg.t2 : IsFile(f)) => ret.s1 # ret.s2

\* The contents of the files of a tree, as many times as there are files with them.
Contents(tree) == [b \in {"x", "y"} |-> Cardinality({f \in tree : IsFile(f) /\ f.bytes = b})]

\* C16: a signature without the separator is verified under version 1:
\* validate(T, s) is true exactly when s is the version 1 digest of T, which
\* is the digest of every tree whose files have the same contents, whatever
\* their names and directories.
C16_BareIsVersion1 ==
    ret.fn = "legacy" =>
        /\ ret.ok = Return(ret.signature = _get_checksum(Dir(arg.t2), 1).val)
        /\ ret.signature = _get_checksum(Dir(arg.t1), 1).val =>
               ret.ok = Return(Contents(arg.t1) = Contents(arg.t2))

\* The case of C16: the bare version 1 digest of a tree verifies a tree with
\* the same contents under other names and in other directories.
C16_Witness ==
    /\ ret.fn = "legacy"
    /\ ret.signature = _get_checksum(Dir(arg.t1), 1).val
    /\ ret.ok = Return(TRUE)
    /\ \E f \in arg.t1 : IsFile(f)
    /\ arg.t1 \cap arg.t2 = {}

(***************************************************************************)
(* The add-ons found in a cloned tree.                                     *)
(***************************************************************************)
Found == ret.fn = "find_addons" /\ ret.exc = None

\* The manifests of the searched tree that qualify.
Qualifying == _find_toc_files(arg.tree, ret.max_game_version)

\* C17: no returned root is equal to or nested inside another returned root;
\* a returned root is the directory of a qualifying manifest with no
\* qualifying manifest above it, and every qualifying manifest lies in or
\* below a returned root.
C17_ShallowestRoots ==
    Found =>
        /\ \A i, j \in DOMAIN ret.addons :
              i # j => ~IsPrefix(ret.addons[i].path, ret.addons[j].path)
        /\ \A i \in DOMAIN ret.addons :
              /\ \E f \in Qualifying :
                    f.dir = ret.addons[i].path /\ Stem(f.name) = ret.addons[i].name
              /\ \A f \in Qualifying :
                    IsPrefix(f.dir, ret.addons[i].path) => f.dir = ret.addons[i].path
        /\ \A f \in Qualifying :
              \E i \in DOMAIN ret.addons : IsPrefix(ret.addons[i].path, f.dir)

\* The case of C17: a qualifying manifest lies below a returned root and is
\* not returned, and another lies below a directory whose manifest does not
\* qualify and is returned.
C17_Witness ==
    /\ Found
    /\ \E f \in Qualifying : \E i \in DOMAIN ret.addons :
          /\ IsPrefix(ret.addons[i].path, f.dir) /\ ret.addons[i].path # f.dir
          /\ \A j \in DOMAIN ret.addons : ret.addons[j].path # f.dir
    /\ \E i \in DOMAIN ret.addons : Len(ret.addons[i].path) = 2

(***************************************************************************)
(* The config mapping.                                                     *)
(***************************************************************************)
\* Every record of the mapping d is under the lower-cased form of its name,
\* and no two records have the same lower-cased name.
KeyedByLowerName(d) ==
    /\ \A k \in DOMAIN d : k = Lower(d[k].name)
    /\ \A j, k \in DOMAIN d : Lower(d[j].name) = Lower(d[k].name) => j = k

\* C18: after any sequence of install, update and remove commands every
\* record of the config is stored under the lower-cased form of its name, and
\* there is at most one record per lower-cased name; so for the backup and
\* for every save a command made on its way.
C18_KeyedByLowerName ==
    /\ KeyedByLowerName(cfgFile.addons)
    /\ KeyedByLowerName(bakFile.addons)
    /\ KeyedByLowerName(last.saved)

\* The case of C18: Foo and Bar were installed, and then foo, whose name
\* differs from Foo's in case only, took the place of Foo.
C18_Witness ==
    /\ last.cmd = "install" /\ last.outcome = None
    /\ DOMAIN cfgFile.addons = {"foo", "bar"}
    /\ cfgFile.addons["foo"].name = "foo"
    /\ cfgFile.addons["bar"].name = "Bar"
    /\ bakFile.exists /\ bakFile.addons["foo"].name = "Foo"

(***************************************************************************)
(* Names that no record has.                                               *)
(***************************************************************************)
\* How main ends a command: only a CliError is caught, reported as an error
\* and turned into exit code 1 (main, try/except).
RecognizedError(outcome) == outcome = "CliError"

\* The step is a remove or update command given names, none of which is the
\* name of a record.
NamedCommand == last'.cmd \in {"remove", "update"} /\ last'.names # <<>>
AllUnknown == \A i \in DOMAIN last'.names : addon_key(last'.names[i]) \notin DOMAIN Config

\* C19: a remove or update command given a name that no record has ends as a
\* recognized user-input error (exit code 1), and the config records after it
\* are the records before it.
C19_UnknownNameIsUserError ==
    [][(NamedCommand /\ AllUnknown) =>
          /\ RecognizedError(last'.outcome)
          /\ load_or_setup(cfgFile') = Config]_vars

\* A remove or update command given only names that no record has leaves the
\* records and the directories as they were.
UnknownNamesChangeNothing ==
    [][(NamedCommand /\ AllUnknown) =>
          (load_or_setup(cfgFile') = Config /\ disk' = disk)]_vars

\* A remove command given only names that no record has ends without error,
\* and an update command so given ends by an exception that main does not catch.
UnknownNamesOutcome ==
    [][(NamedCommand /\ AllUnknown) =>
          last'.outcome = (IF last'.cmd = "remove" THEN None ELSE "ArgumentTypeError")]_vars

(***************************************************************************)
(* A repository without add-ons.                                           *)
(***************************************************************************)
\* The branch an install command asks install_addon for.
BranchAsked == IF last.names[2] # None THEN last.names[2] ELSE last.names[3]

\* The work trees of the repositories in which find_addons finds nothing.
NoAddonsIn ==
    {t \in {WorkTree(u, c) : u \in Urls, c \in Commits} : find_addons(t, MaxGameVersion) = <<>>}

\* The last command was an install that reached install_addon, whose clone
\* succeeded and held no qualifying add-on.
NothingFound ==
    /\ last.cmd = "install"
    /\ ~(last.names[2] # None /\ last.names[3] # None /\ last.names[2] # last.names[3])
    /\ clone(remote, last.names[1], BranchAsked).exc = None
    /\ clone(remote, last.names[1], BranchAsked).val.workdir \in NoAddonsIn

\* C20: when the cloned tree holds no qualifying add-on, install_addon fails
\* with the user-facing error, and neither the config records nor any
\* directory of the add-ons directory is changed.
C20_NothingFoundNothingChanged ==
    [][NothingFound' =>
          /\ last'.outcome = "CliError"
          /\ load_or_setup(cfgFile') = Config
          /\ disk' = disk]_vars

\* The case of C20: with add-ons installed, an install of the dev branch of U2,
\* whose manifest is for a later game version, has failed.
C20_Witness ==
    /\ NothingFound
    /\ last.names[1] = "U2" /\ BranchAsked = "dev"
    /\ last.outcome = "CliError"
    /\ DOMAIN Config # {}
    /\ \E k \in DOMAIN Config : disk[Config[k].name].isdir

(***************************************************************************)
(* The manifests that qualify.                                             *)
(***************************************************************************)
\* A line is a compatibility directive when it declares an integer version.
IsDirective(line) == line \in {"## Interface: 11200", "## Interface: 20000"}
Declared(line) == IF line = "## Interface: 11200" THEN 11200 ELSE 20000

\* The manifest's first directive declares a version that is at most max.
Qualifies(f, max) ==
    /\ IsToc(f.name)
    /\ \E i \in DOMAIN Text(f.bytes) :
          /\ IsDirective(Text(f.bytes)[i])
          /\ \A j \in 1..(i - 1) : ~IsDirective(Text(f.bytes)[j])
          /\ Declared(Text(f.bytes)[i]) <= max

UnreadableRaises ==
    (ret.fn = "find_addons" /\ Unreadable(arg.tree)) => ret.exc = "ParseError"

(***************************************************************************)
(* The order of the report.                                                *)
(***************************************************************************)
\* C22: the sequence that reconcile returns is in ascending order of
\* lower-cased add-on name, and no two of its entries have the same
\* lower-cased name.
C22_SortedByLowerName ==
    Reported =>
        \A i, j \in DOMAIN last.report.val :
            i < j => Rank(Lower(last.report.val[i].addon)) < Rank(Lower(last.report.val[j].addon))

\* The case of C22: the report has foo before Misc, which the order of the
\* names as written would put after it, and a third entry.
C22_Witness ==
    /\ Reported
    /\ Len(last.report.val) >= 3
    /\ \E i, j \in DOMAIN last.report.val :
          i < j /\ last.report.val[i].addon = "foo" /\ last.report.val[j].addon = "Misc"

(***************************************************************************)
(* The status command writes nothing.                                      *)
(***************************************************************************)
\* C23: the status command changes neither the config file nor the backup
\* file nor the config records in memory, whether it succeeds or raises.
C23_StatusWritesNothing ==
    [][last'.cmd = "status" =>
          /\ cfgFile' = cfgFile
          /\ bakFile' = bakFile
          /\ cmd_status(Begin(cfgFile, disk), last'.report).mem = Config]_vars

\* The case of C23: a status command has succeeded (has raised) where a
\* config with records and its backup exist.
C23_Witness ==
    /\ last.cmd = "status" /\ last.outcome = None
    /\ cfgFile.exists /\ bakFile.exists /\ DOMAIN Config # {}

C23_WitnessRaised ==
    /\ last.cmd = "status" /\ last.outcome # None
    /\ cfgFile.exists /\ DOMAIN Config # {}

(***************************************************************************)
(* Writes to the config mapping and the listing tasks.                     *)
(***************************************************************************)
\* C24: the config mapping is not written while a listing task is running:
\* in every interleaving of a status or update command a step that changes
\* the mapping is taken after fetch_states has returned, when none of its
\* tasks is running.
C24_WritesAfterListings ==
    [][ret'.mem # ret.mem => (fetch.pc = "returned" /\ Running = {})]_vars

\* The case of C24: an update command with two listing tasks has written a
\* record into the mapping.
C24_Witness ==
    /\ arg.fn = "update" /\ ret.fn = "done"
    /\ Len(fetch.remotes) = 2
    /\ ret.mem["bar"].commit = "c2"

\* fetch_states may raise, and the command end, while a listing task is
\* running; the mapping is not written then.
EndedWhileListing == ret.fn = "done" /\ Running # {}

(***************************************************************************)
(* The fingerprint an install stores.                                      *)
(***************************************************************************)
\* The step is a status command run directly after an install that succeeded.
StatusAfterInstall == last.cmd = "install" /\ last.outcome = None /\ last'.cmd = "status"

\* The report of the step has the record of key k with status s.
ReportsNext(k, s) ==
    /\ last'.report.exc = None
    /\ \E i \in DOMAIN last'.report.val :
          addon_key(last'.report.val[i].addon) = k /\ last'.report.val[i].status = s

\* C25: directly after install_addon has succeeded, the fingerprint of every
\* record it stored verifies against the installed directory, and a reconcile
\* run then does not report the add-on modified, and reports it up-to-date
\* when the remote head is the recorded commit.
C25_InstalledVerifies ==
    [][StatusAfterInstall =>
          \A k \in DOMAIN last.saved :
             /\ Verifies(Config[k], TRUE)
             /\ ~ReportsNext(k, "modified")
             /\ (Resolved(Config[k]) /\ HeadOf(Config[k]) = Config[k].commit)
                   => ReportsNext(k, "up-to-date")]_vars

\* Directly after install_addon has succeeded the fingerprint of every record
\* it stored verifies against the installed directory.
InstalledFingerprintVerifies ==
    (last.cmd = "install" /\ last.outcome = None) =>
        \A k \in DOMAIN last.saved : Verifies(Config[k], TRUE)

\* When the reconcile run after a successful install returns a report, the
\* report has every installed add-on, not as modified, and as up-to-date when
\* the remote head is the recorded commit.
InstalledReportedWhenReturned ==
    [][(StatusAfterInstall /\ last'.report.exc = None) =>
          \A k \in DOMAIN last.saved :
             /\ ~ReportsNext(k, "modified")
             /\ (Resolved(Config[k]) /\ HeadOf(Config[k]) = Config[k].commit)
                   => ReportsNext(k, "up-to-date")]_vars

(***************************************************************************)
(* The order of enumeration.                                               *)
(***************************************************************************)
\* C26: two computations of calculate over the same directory tree return
\* the same signature, whatever order the filesystem enumerates the entries
\* of each directory in.
C26_SameTreeSameSignature ==
    ret.fn = "recalculate" => ret.again = ret.s1

\* Two computations over the same tree enumerated in the same order return
\* the same signature.
SameOrderSameSignature ==
    (ret.fn = "recalculate" /\ ret.scan = arg.scan) => ret.again = ret.s1

\* A tree in which no directory has two subdirectories that hold something
\* gets the same signature in every order.
OneBranchSameSignature ==
    (ret.fn = "recalculate"
     /\ \A f, g \in arg.t1 : (IsFile(f) /\ IsFile(g) /\ f.dir # <<>> /\ g.dir # <<>>) => f.dir = g.dir)
    => ret.again = ret.s1

(***************************************************************************)
(* A record without a fingerprint.                                         *)
(***************************************************************************)
\* The records whose checksum is null and whose remote head resolved.
NullResolved == {k \in DOMAIN Config : Config[k].checksum = NoneSig /\ Resolved(Config[k])}

\* C27: for a record whose checksum is null and whose remote head resolved
\* to a hash, reconcile returns a report with a status for the record
\* instead of raising.
C27_NullChecksumReported ==
    Reconciled => \A k \in NullResolved : last.report.exc = None /\ EntriesOf(k) # {}

\* For such a record reconcile raises TypeError.
NullChecksumRaises ==
    (Reconciled /\ NullResolved # {}) => last.report.exc = "TypeError"

\* A record with a bare digest or with a signature of the latest version,
\* whose directory is there and whose remote head resolved, is reported.
StoredChecksumReported ==
    Reconciled =>
        \A k \in DOMAIN Config :
            (Config[k].checksum # NoneSig /\ Resolved(Config[k]) /\ disk[Config[k].name].isdir)
            => (last.report.exc = None /\ EntriesOf(k) # {})

\* A bare digest of the installed directory is verified: the add-on is
\* reported up-to-date.
BareDigestUpToDate ==
    (Reconciled /\ Config["bar"].checksum = _get_checksum(BarInstalled, 1).val
     /\ disk["Bar"] = BarInstalled /\ Resolved(Config["bar"]) /\ HeadOf(Config["bar"]) = "c1")
    => Reports("bar", "up-to-date")

====
